---- MODULE Spec2Model ----
(***************************************************************************)
(* EloTracker: a model of src/elo_tracker/storage.py (the store and its    *)
(* JSON persistence) and src/elo_tracker/cli.py (the four commands).       *)
(*                                                                         *)
(* Representation.                                                         *)
(*  - A Python str is the sequence of its code points, so that sorted(),   *)
(*    str.strip(), str.lower() and date.fromisoformat() are computed on    *)
(*    characters exactly as the interpreter computes them.                 *)
(*  - A Python / JSON value is a record PyVal with a tag t and one payload *)
(*    field per kind (n, chars, items, members); every value carries all   *)
(*    fields so that any two values can be compared.                       *)
(*  - A datetime.date is [year, month, day].                               *)
(*  - A Python dict whose iteration order is never observed (EloData.days: *)
(*    it is only indexed, tested for membership, sorted, or dumped with    *)
(*    sort_keys=True) is a function from its keys.                         *)
(*  - The file is [exists, doc]: doc is the JSON document in the file, an  *)
(*    object being the sequence of its members in file order.  json.dump   *)
(*    with fixed indent and sort_keys is an injective function of the      *)
(*    document, so two files written by the program are byte-for-byte      *)
(*    equal exactly when their documents are equal.                        *)
(***************************************************************************)
EXTENDS Integers, Sequences, FiniteSets, TLC

VARIABLES
    file,      \* the persisted file elo_history.json
    out,       \* out[p]: what the last command of process p printed
    expect,    \* history: for each key, the sets the file held first and the
               \*   values recorded since, in order; emptied by a confirmed reset
    pc,        \* pc[p]: "idle", or "loaded" between load_data and save_data
    mem,       \* mem[p]: the EloData process p loaded
    arg,       \* arg[p]: the arguments of p's record command
    runs,      \* runs[p]: record commands p has finished concurrently
    raced,     \* history: another process saved between p's load and p's save
    seen,      \* history: the last writer of the file when p loaded it
    lastSave   \* history: the last writer, and what each process last appended

vars == <<file, out, expect, pc, mem, arg, runs, raced, seen, lastSave>>

conc == <<pc, mem, arg, runs, raced, seen, lastSave>>

(***************************************************************************)
(* Bounds of the model.                                                    *)
(***************************************************************************)
\* record is offered only while the store holds fewer than MaxSets sets
MaxSets == 3
\* number of record commands each of the two concurrent processes runs
RunsPerProc == 1

(***************************************************************************)
(* Python str: sequences of code points.                                   *)
(***************************************************************************)
IsDigit(c) == c >= 48 /\ c <= 57

DigitVal(c) == c - 48

\* two decimal digits, zero padded ("%02d")
Fmt2(n) == <<48 + (n \div 10), 48 + (n % 10)>>

\* four decimal digits, zero padded ("%04d")
Fmt4(n) == <<48 + (n \div 1000), 48 + ((n \div 100) % 10), 48 + ((n \div 10) % 10), 48 + (n % 10)>>

\* Python's str ordering: lexicographic on code points, a proper prefix first
RECURSIVE StrLess(_, _)
StrLess(a, b) ==
    IF b = <<>> THEN FALSE
    ELSE IF a = <<>> THEN TRUE
    ELSE IF a[1] # b[1] THEN a[1] < b[1]
    ELSE StrLess(Tail(a), Tail(b))

IsSpace(c) == c \in {9, 10, 11, 12, 13, 32}

RECURSIVE LStrip(_)
LStrip(s) == IF s # <<>> /\ IsSpace(s[1]) THEN LStrip(Tail(s)) ELSE s

RECURSIVE RStrip(_)
RStrip(s) == IF s # <<>> /\ IsSpace(s[Len(s)]) THEN RStrip(SubSeq(s, 1, Len(s) - 1)) ELSE s

\* str.strip()
Strip(s) == RStrip(LStrip(s))

\* str.lower() on the ASCII letters
Lower(s) == [i \in 1..Len(s) |-> IF s[i] >= 65 /\ s[i] <= 90 THEN s[i] + 32 ELSE s[i]]

\* "yes"
YesStr == <<121, 101, 115>>

\* "sets"
SetsKey == <<115, 101, 116, 115>>

(***************************************************************************)
(* datetime.date                                                           *)
(***************************************************************************)
Date(y, m, d) == [year |-> y, month |-> m, day |-> d]

IsLeap(y) == y % 4 = 0 /\ (y % 100 # 0 \/ y % 400 = 0)

DaysInMonth(y, m) ==
    IF m = 2 THEN (IF IsLeap(y) THEN 29 ELSE 28)
    ELSE IF m \in {4, 6, 9, 11} THEN 30 ELSE 31

ValidYMD(y, m, d) ==
    /\ y >= 1 /\ y <= 9999
    /\ m >= 1 /\ m <= 12
    /\ d >= 1 /\ d <= DaysInMonth(y, m)

\* date.isoformat(): "%04d-%02d-%02d"
isoformat(d) == Fmt4(d.year) \o <<45>> \o Fmt2(d.month) \o <<45>> \o Fmt2(d.day)

AllDigits(s, idx) == \A i \in idx : IsDigit(s[i])

Num2(s, i) == 10 * DigitVal(s[i]) + DigitVal(s[i + 1])

Num4(s) == 1000 * DigitVal(s[1]) + 100 * DigitVal(s[2]) + 10 * DigitVal(s[3]) + DigitVal(s[4])

\* date.fromisoformat(s) on the calendar-date forms the interpreter accepts:
\* the extended form YYYY-MM-DD and the basic form YYYYMMDD.  The result is
\* [ok, date]; ok = FALSE stands for the ValueError.
fromisoformat(s) ==
    LET bad == [ok |-> FALSE, date |-> Date(1, 1, 1)]
    IN  IF Len(s) = 10 /\ s[5] = 45 /\ s[8] = 45 /\ AllDigits(s, {1, 2, 3, 4, 6, 7, 9, 10})
        THEN IF ValidYMD(Num4(s), Num2(s, 6), Num2(s, 9))
             THEN [ok |-> TRUE, date |-> Date(Num4(s), Num2(s, 6), Num2(s, 9))]
             ELSE bad
        ELSE IF Len(s) = 8 /\ AllDigits(s, 1..8)
        THEN IF ValidYMD(Num4(s), Num2(s, 5), Num2(s, 7))
             THEN [ok |-> TRUE, date |-> Date(Num4(s), Num2(s, 5), Num2(s, 7))]
             ELSE bad
        ELSE bad

\* date ordering (date.__lt__ / __ge__): by (year, month, day)
DateLess(a, b) ==
    \/ a.year < b.year
    \/ a.year = b.year /\ a.month < b.month
    \/ a.year = b.year /\ a.month = b.month /\ a.day < b.day

DateGE(a, b) == ~DateLess(a, b)

PrevDay(d) ==
    IF d.day > 1 THEN Date(d.year, d.month, d.day - 1)
    ELSE IF d.month > 1 THEN Date(d.year, d.month - 1, DaysInMonth(d.year, d.month - 1))
    ELSE Date(d.year - 1, 12, 31)

NextDay(d) ==
    IF d.day < DaysInMonth(d.year, d.month) THEN Date(d.year, d.month, d.day + 1)
    ELSE IF d.month < 12 THEN Date(d.year, d.month + 1, 1)
    ELSE Date(d.year + 1, 1, 1)

\* d - timedelta(days=n), n of either sign
RECURSIVE MinusDays(_, _)
MinusDays(d, n) ==
    IF n = 0 THEN d
    ELSE IF n > 0 THEN MinusDays(PrevDay(d), n - 1)
    ELSE MinusDays(NextDay(d), n + 1)

(***************************************************************************)
(* Python / JSON values.                                                   *)
(*   t = "int"   n        an int                                           *)
(*   t = "str"   chars    a str                                            *)
(*   t = "arr"   items    a JSON array / Python list                       *)
(*   t = "obj"   members  a JSON object / Python dict: <<[key, val], ...>> *)
(*   t = "none"           None                                             *)
(*   t = "invalid"        file text that is not JSON                       *)
(*   t = "TypeError"      the exception raised instead of a value          *)
(***************************************************************************)
PyVal(t, n, chars, items, members) ==
    [t |-> t, n |-> n, chars |-> chars, items |-> items, members |-> members]

JInt(n) == PyVal("int", n, <<>>, <<>>, <<>>)

JStr(s) == PyVal("str", 0, s, <<>>, <<>>)

JArr(xs) == PyVal("arr", 0, <<>>, xs, <<>>)

JObj(ms) == PyVal("obj", 0, <<>>, <<>>, ms)

JNone == PyVal("none", 0, <<>>, <<>>, <<>>)

JInvalid == PyVal("invalid", 0, <<>>, <<>>, <<>>)

PyTypeError == PyVal("TypeError", 0, <<>>, <<>>, <<>>)

Member(k, v) == [key |-> k, val |-> v]

\* dict built by json.load from an object: the keys ...
DictKeys(v) == {v.members[i].key : i \in 1..Len(v.members)}

\* ... and, for a repeated key, the value of its last occurrence
DictGet(v, k) ==
    LET last == CHOOSE i \in 1..Len(v.members) :
                  /\ v.members[i].key = k
                  /\ \A j \in (i + 1)..Len(v.members) : v.members[j].key # k
    IN  v.members[last].val

\* sorted(keys): ascending in Python's str order
RECURSIVE sorted(_)
sorted(S) ==
    IF S = {} THEN <<>>
    ELSE LET m == CHOOSE x \in S : \A y \in S \ {x} : StrLess(x, y)
         IN  <<m>> \o sorted(S \ {m})

(***************************************************************************)
(* storage.py: EloDay                                                      *)
(***************************************************************************)
\* EloDay(date=day, sets=sets)
EloDay(day, sets) == [date |-> day, sets |-> sets]

\* a - b on two Python values
PyMinus(a, b) == IF a.t = "int" /\ b.t = "int" THEN JInt(a.n - b.n) ELSE PyTypeError

\* max(xs) of a non-empty list: ints by value, strs by str order, a mix raises
PyMax(xs) ==
    IF \A i \in 1..Len(xs) : xs[i].t = "int"
    THEN xs[CHOOSE i \in 1..Len(xs) : \A j \in 1..Len(xs) : xs[j].n <= xs[i].n]
    ELSE IF \A i \in 1..Len(xs) : xs[i].t = "str"
    THEN xs[CHOOSE i \in 1..Len(xs) : \A j \in 1..Len(xs) : ~StrLess(xs[i].chars, xs[j].chars)]
    ELSE PyTypeError

\* min(xs) of a non-empty list
PyMin(xs) ==
    IF \A i \in 1..Len(xs) : xs[i].t = "int"
    THEN xs[CHOOSE i \in 1..Len(xs) : \A j \in 1..Len(xs) : xs[i].n <= xs[j].n]
    ELSE IF \A i \in 1..Len(xs) : xs[i].t = "str"
    THEN xs[CHOOSE i \in 1..Len(xs) : \A j \in 1..Len(xs) : ~StrLess(xs[j].chars, xs[i].chars)]
    ELSE PyTypeError

start(day) == IF day.sets # <<>> THEN day.sets[1] ELSE JNone

end(day) == IF day.sets # <<>> THEN day.sets[Len(day.sets)] ELSE JNone

change(day) ==
    IF day.sets = <<>> THEN JNone
    ELSE PyMinus(day.sets[Len(day.sets)], day.sets[1])

best(day) == IF day.sets # <<>> THEN PyMax(day.sets) ELSE JNone

\* worst computed with max
worst_m(day) == IF day.sets # <<>> THEN PyMax(day.sets) ELSE JNone

worst(day) == IF day.sets # <<>> THEN PyMin(day.sets) ELSE JNone

to_dict(day) == JObj(<<Member(SetsKey, JArr(day.sets))>>)

\* the keys of a dict as strs, in the order json.load inserted them
RECURSIVE KeyList(_, _)
KeyList(ms, i) ==
    IF i > Len(ms) THEN <<>>
    ELSE (IF \E j \in 1..(i - 1) : ms[j].key = ms[i].key THEN <<>> ELSE <<JStr(ms[i].key)>>)
         \o KeyList(ms, i + 1)

\* list(x): x a list, a str (its characters), a dict (its keys); otherwise TypeError
PyList(x) ==
    IF x.t = "arr" THEN [ok |-> TRUE, items |-> x.items]
    ELSE IF x.t = "str" THEN [ok |-> TRUE, items |-> [i \in 1..Len(x.chars) |-> JStr(<<x.chars[i]>>)]]
    ELSE IF x.t = "obj" THEN [ok |-> TRUE, items |-> KeyList(x.members, 1)]
    ELSE [ok |-> FALSE, items |-> <<>>]

\* from_dict that never finds "sets" and always takes the default
from_dict_m(day, data) ==
    IF data.t # "obj"
    THEN [ok |-> FALSE, err |-> "AttributeError", day |-> EloDay(day, <<>>)]
    ELSE [ok |-> TRUE, err |-> "none", day |-> EloDay(day, <<>>)]

\* EloDay.from_dict(day, data): [ok, err, day]
from_dict(day, data) ==
    IF data.t # "obj"
    THEN [ok |-> FALSE, err |-> "AttributeError", day |-> EloDay(day, <<>>)]
    ELSE LET got == IF SetsKey \in DictKeys(data) THEN DictGet(data, SetsKey) ELSE JArr(<<>>)
             sets == PyList(got)
         IN  IF sets.ok
             THEN [ok |-> TRUE, err |-> "none", day |-> EloDay(day, sets.items)]
             ELSE [ok |-> FALSE, err |-> "TypeError", day |-> EloDay(day, <<>>)]

(***************************************************************************)
(* storage.py: EloData                                                     *)
(***************************************************************************)
\* EloData(days=days); EloData() is EloData(<<>>), the empty dict
EloData(days) == [days |-> days]

\* data.to_json(): the dict {key: day.to_dict()}
to_json(data) == [k \in DOMAIN data.days |-> to_dict(data.days[k])]

\* the loop of from_json from member i on, days being the dict built so far
RECURSIVE FromJsonFrom(_, _, _)
FromJsonFrom(raw, i, days) ==
    IF i > Len(raw.members) THEN [ok |-> TRUE, err |-> "none", data |-> EloData(days)]
    ELSE LET day_str == raw.members[i].key
         IN  IF \E j \in 1..(i - 1) : raw.members[j].key = day_str
             THEN FromJsonFrom(raw, i + 1, days)
             ELSE LET day_obj == fromisoformat(day_str)
                      made == from_dict(day_obj.date, DictGet(raw, day_str))
                  IN  IF ~day_obj.ok
                      THEN [ok |-> FALSE, err |-> "ValueError", data |-> EloData(<<>>)]
                      ELSE IF ~made.ok
                      THEN [ok |-> FALSE, err |-> made.err, data |-> EloData(<<>>)]
                      ELSE FromJsonFrom(raw, i + 1, (day_str :> made.day) @@ days)

\* EloData.from_json(raw): [ok, err, data]; raw.items() needs a dict
from_json(raw) ==
    IF raw.t # "obj" THEN [ok |-> FALSE, err |-> "AttributeError", data |-> EloData(<<>>)]
    ELSE FromJsonFrom(raw, 1, <<>>)

\* get_day without the membership test: a fresh EloDay every time
get_day_m(data, day) == EloData((isoformat(day) :> EloDay(day, <<>>)) @@ data.days)

\* data.get_day(day): the store after the call; the day returned is
\* the entry at isoformat(day)
get_day(data, day) ==
    LET day_key == isoformat(day)
    IN  IF day_key \notin DOMAIN data.days
        THEN EloData((day_key :> EloDay(day, <<>>)) @@ data.days)
        ELSE data

sorted_days(data) ==
    LET keys == sorted(DOMAIN data.days)
    IN  [i \in 1..Len(keys) |-> data.days[keys[i]]]

(***************************************************************************)
(* storage.py: load_data / save_data                                       *)
(* (ensure_storage_dir only creates the directory; it is not part of the   *)
(* state.)                                                                 *)
(***************************************************************************)
MissingFile == [exists |-> FALSE, doc |-> JInvalid]

FileOf(doc) == [exists |-> TRUE, doc |-> doc]

\* json.load(f): [ok, val]; text that is not JSON raises JSONDecodeError
json_load(doc) == [ok |-> doc.t # "invalid", val |-> doc]

\* json.dump(d, f, indent=2, sort_keys=True) of a dict d: members in key order
json_dump(d) ==
    LET keys == sorted(DOMAIN d)
    IN  JObj([i \in 1..Len(keys) |-> Member(keys[i], d[keys[i]])])

\* load_data that never reads the file
load_data_m(f) == [ok |-> TRUE, err |-> "none", data |-> EloData(<<>>)]

\* load_data(): [ok, err, data]
load_data(f) ==
    IF ~f.exists THEN [ok |-> TRUE, err |-> "none", data |-> EloData(<<>>)]
    ELSE LET raw == json_load(f.doc)
         IN  IF ~raw.ok
             THEN [ok |-> FALSE, err |-> "JSONDecodeError", data |-> EloData(<<>>)]
             ELSE from_json(raw.val)

\* save_data(data): the file after path.open("w") and json.dump
save_data(data) == FileOf(json_dump(to_json(data)))

(***************************************************************************)
(* cli.py: what a command leaves on the terminal.                          *)
(*   cmd   the command run ("none" before the first one)                   *)
(*   date  args.date: <<>> when the option is absent, <<d>> when given     *)
(*   num   args.elo / args.days / args.limit: <<>> when absent             *)
(*   line  the line typed at the reset prompt                              *)
(*   err   the exception that ended the command, "none" if it returned     *)
(*   msg   "recorded", "nodata", "table", "cancelled", "cleared"           *)
(*   rows  the table's rows (the values summarize_day formats)             *)
(*   pos   the set number printed by record                                *)
(*   wrote whether the command called save_data                            *)
(***************************************************************************)
Output(cmd, date, num, line, err, msg, rows, pos, wrote) ==
    [cmd |-> cmd, date |-> date, num |-> num, line |-> line, err |-> err,
     msg |-> msg, rows |-> rows, pos |-> pos, wrote |-> wrote]

NoOutput == Output("none", <<>>, <<>>, <<>>, "none", "none", <<>>, 0, FALSE)

\* date.today(): the day on which the commands run; the first of January,
\* so that the summary window reaches back across a month and a year
Today == Date(2024, 1, 1)

\* summarize_day(day): the cells of the day's row, before str() formatting
summarize_day(day) ==
    [date |-> isoformat(day.date), n |-> Len(day.sets), start |-> start(day),
     end |-> end(day), change |-> change(day), best |-> best(day), worst |-> worst(day)]

\* a cell whose computation raised
RowRaises(r) == \E c \in {r.start, r.end, r.change, r.best, r.worst} : c.t = "TypeError"

\* [summarize_day(day) for day in days] followed by print(render_table(...))
PrintTable(cmd, date, num, days) ==
    LET rows == [i \in 1..Len(days) |-> summarize_day(days[i])]
    IN  IF \E i \in 1..Len(rows) : RowRaises(rows[i])
        THEN Output(cmd, date, num, <<>>, "TypeError", "none", <<>>, 0, FALSE)
        ELSE Output(cmd, date, num, <<>>, "none", "table", rows, 0, FALSE)

\* lines 64-66 of cmd_record: the store after get_day and append
RecordInto(data, elo, date) ==
    LET record_date == IF date # <<>> THEN date[1] ELSE Today
        got == get_day(data, record_date)
    IN  EloData([got.days EXCEPT ![isoformat(record_date)].sets = Append(@, JInt(elo))])

\* "#{len(day.sets)}" in the confirmation
RecordPos(data, date) ==
    Len(data.days[isoformat(IF date # <<>> THEN date[1] ELSE Today)].sets)

\* cmd_record: [file, out]
cmd_record(f, elo, date) ==
    LET ld == load_data(f)
        data == RecordInto(ld.data, elo, date)
    IN  IF ~ld.ok
        THEN [file |-> f, out |-> Output("record", date, <<elo>>, <<>>, ld.err, "none", <<>>, 0, FALSE)]
        ELSE [file |-> save_data(data),
              out |-> Output("record", date, <<elo>>, <<>>, "none", "recorded", <<>>,
                             RecordPos(data, date), TRUE)]

\* cmd_summary: [file, out]
cmd_summary(f, date, ndays) ==
    LET ld == load_data(f)
        all == sorted_days(ld.data)
        cutoff == MinusDays(Today, ndays[1] - 1)
        OnTarget(day) == isoformat(day.date) = isoformat(date[1])
        Recent(day) == DateGE(day.date, cutoff)
        days == IF date # <<>> THEN SelectSeq(all, OnTarget)
                ELSE IF ndays # <<>> THEN SelectSeq(all, Recent)
                ELSE all
    IN  IF ~ld.ok
        THEN [file |-> f, out |-> Output("summary", date, ndays, <<>>, ld.err, "none", <<>>, 0, FALSE)]
        ELSE IF days = <<>>
        THEN [file |-> f, out |-> Output("summary", date, ndays, <<>>, "none", "nodata", <<>>, 0, FALSE)]
        ELSE [file |-> f, out |-> PrintTable("summary", date, ndays, days)]

\* xs[i:] for a Python list xs and an index i of either sign
PySliceFrom(xs, i) ==
    LET n == Len(xs)
        from == IF i < 0 THEN (IF i + n < 0 THEN 0 ELSE i + n)
                ELSE (IF i > n THEN n ELSE i)
    IN  SubSeq(xs, from + 1, n)

\* cmd_history: [file, out]
cmd_history(f, limit) ==
    LET ld == load_data(f)
        all == sorted_days(ld.data)
        days == IF limit # <<>> THEN PySliceFrom(all, 0 - limit[1]) ELSE all
    IN  IF ~ld.ok
        THEN [file |-> f, out |-> Output("history", <<>>, limit, <<>>, ld.err, "none", <<>>, 0, FALSE)]
        ELSE IF all = <<>>
        THEN [file |-> f, out |-> Output("history", <<>>, limit, <<>>, "none", "nodata", <<>>, 0, FALSE)]
        ELSE [file |-> f, out |-> PrintTable("history", <<>>, limit, days)]

\* cmd_reset's test without .lower()
Confirmed_m(line) == Strip(line) = YesStr

\* the test of cmd_reset on the line read by input()
Confirmed(line) == Lower(Strip(line)) = YesStr

\* cmd_reset: [file, out]
cmd_reset(f, line) ==
    IF ~Confirmed(line)
    THEN [file |-> f, out |-> Output("reset", <<>>, <<>>, line, "none", "cancelled", <<>>, 0, FALSE)]
    ELSE [file |-> save_data(EloData(<<>>)),
          out |-> Output("reset", <<>>, <<>>, line, "none", "cleared", <<>>, 0, TRUE)]

(***************************************************************************)
(* Inputs.                                                                 *)
(***************************************************************************)
Procs == {1, 2}

Yesterday == PrevDay(Today)

Tomorrow == NextDay(Today)

\* record <elo>
Elos == {1490, 1500, 1550}

\* record --date
RecordDates == {<<>>, <<Yesterday>>, <<Tomorrow>>}

\* summary --days
SummaryDays == {<<1>>, <<2>>, <<7>>}

\* summary: --days N, or --date D with --days left at the parser's default, 7
SummaryArgs ==
    {[date |-> <<>>, days |-> n] : n \in SummaryDays}
    \cup {[date |-> <<d>>, days |-> <<7>>] : d \in {Yesterday, Today}}

\* history --limit
Limits == {<<>>, <<0>>, <<1>>, <<2>>}

\* lines typed at the reset prompt: "yes", "Yes", "YES", "no", " Yes ", ""
\* (input() returns the line without its newline)
Lines == {<<121, 101, 115>>, <<89, 101, 115>>, <<89, 69, 83>>, <<110, 111>>,
          <<32, 89, 101, 115, 32>>, <<>>}

\* the object {"sets": [...]} of one day
DayObj(xs) == JObj(<<Member(SetsKey, JArr(xs))>>)

\* "20240102", the basic ISO 8601 form of Tomorrow
BasicTomorrow == Fmt4(Tomorrow.year) \o Fmt2(Tomorrow.month) \o Fmt2(Tomorrow.day)

\* Files the program may find: none; files it wrote (keys in any order, as
\* an editor may leave them); and files that are not what it writes.
InitFiles ==
    { MissingFile,
      \* {"2024-01-02": {"sets": [1500]}, "2023-12-31": {"sets": [1490]}}
      FileOf(JObj(<<Member(isoformat(Tomorrow), DayObj(<<JInt(1500)>>)),
                    Member(isoformat(Yesterday), DayObj(<<JInt(1490)>>))>>)),
      \* {"2024-01-05": {"sets": [1500]}, "20240102": {"sets": [1490]}}
      FileOf(JObj(<<Member(isoformat(Date(2024, 1, 5)), DayObj(<<JInt(1500)>>)),
                    Member(BasicTomorrow, DayObj(<<JInt(1490)>>))>>)),
      \* not JSON
      FileOf(JInvalid),
      \* []
      FileOf(JArr(<<>>)),
      \* {"abc": {"sets": [1500]}}
      FileOf(JObj(<<Member(<<97, 98, 99>>, DayObj(<<JInt(1500)>>))>>)),
      \* {"2023-12-31": {}}
      FileOf(JObj(<<Member(isoformat(Yesterday), JObj(<<>>))>>)),
      \* {"2023-12-31": {"sets": 5}}
      FileOf(JObj(<<Member(isoformat(Yesterday), JObj(<<Member(SetsKey, JInt(5))>>))>>)),
      \* {"2023-12-31": {"sets": ["a"]}}
      FileOf(JObj(<<Member(isoformat(Yesterday), DayObj(<<JStr(<<97>>)>>))>>)) }

(***************************************************************************)
(* History bookkeeping.                                                    *)
(***************************************************************************)
\* the sets of every key of a store
SetsOf(data) == [k \in DOMAIN data.days |-> data.days[k].sets]

\* e appended to the sets expected at key k
Recorded(exp, k, e) ==
    IF k \in DOMAIN exp THEN [exp EXCEPT ![k] = Append(@, JInt(e))]
    ELSE (k :> <<JInt(e)>>) @@ exp

RECURSIVE SumLen(_, _)
SumLen(f, S) ==
    IF S = {} THEN 0
    ELSE LET k == CHOOSE x \in S : TRUE IN Len(f[k]) + SumLen(f, S \ {k})

\* number of sets a file holds (0 when it does not load)
TotalSets(f) == LET ld == load_data(f) IN SumLen(SetsOf(ld.data), DOMAIN ld.data.days)

RecordKey(date) == isoformat(IF date # <<>> THEN date[1] ELSE Today)

(***************************************************************************)
(* The program run as one command after another.                           *)
(***************************************************************************)
Init ==
    /\ file \in InitFiles
    /\ out = [p \in Procs |-> NoOutput]
    /\ expect = SetsOf(load_data(file).data)
    /\ pc = [p \in Procs |-> "idle"]
    /\ mem = [p \in Procs |-> EloData(<<>>)]
    /\ arg = [p \in Procs |-> [elo |-> 0, date |-> <<>>]]
    /\ runs = [p \in Procs |-> 0]
    /\ raced = [p \in Procs |-> FALSE]
    /\ seen = [p \in Procs |-> 0]
    /\ lastSave = [writer |-> 0, rec |-> [p \in Procs |-> [key |-> <<>>, elo |-> 0]]]

Record ==
    \E elo \in Elos, date \in RecordDates :
        LET r == cmd_record(file, elo, date)
        IN  /\ TotalSets(file) < MaxSets
            /\ file' = r.file
            /\ out' = [out EXCEPT ![1] = r.out]
            /\ expect' = IF r.out.wrote THEN Recorded(expect, RecordKey(date), elo) ELSE expect
            /\ UNCHANGED conc

Summary ==
    \E a \in SummaryArgs :
        LET r == cmd_summary(file, a.date, a.days)
        IN  /\ file' = r.file
            /\ out' = [out EXCEPT ![1] = r.out]
            /\ UNCHANGED <<expect, conc>>

History ==
    \E limit \in Limits :
        LET r == cmd_history(file, limit)
        IN  /\ file' = r.file
            /\ out' = [out EXCEPT ![1] = r.out]
            /\ UNCHANGED <<expect, conc>>

Reset ==
    \E line \in Lines :
        LET r == cmd_reset(file, line)
        IN  /\ file' = r.file
            /\ out' = [out EXCEPT ![1] = r.out]
            /\ expect' = IF r.out.wrote THEN <<>> ELSE expect
            /\ UNCHANGED conc

Next == Record \/ Summary \/ History \/ Reset

Spec == Init /\ [][Next]_vars

(***************************************************************************)
(* Two processes running record at the same time.  Each command reads the  *)
(* file once (load_data) and writes it once (save_data); nothing locks the *)
(* file, so the other process may read or write between the two.           *)
(***************************************************************************)
ConcElos == {1500, 1550}

ConcDates == {<<>>, <<Yesterday>>}

\* cmd_record up to load_data
LoadStep(p) ==
    \E elo \in ConcElos, date \in ConcDates :
        LET ld == load_data(file)
        IN  /\ pc[p] = "idle"
            /\ runs[p] < RunsPerProc
            /\ arg' = [arg EXCEPT ![p] = [elo |-> elo, date |-> date]]
            /\ IF ld.ok
               THEN /\ pc' = [pc EXCEPT ![p] = "loaded"]
                    /\ mem' = [mem EXCEPT ![p] = ld.data]
                    /\ seen' = [seen EXCEPT ![p] = lastSave.writer]
                    /\ raced' = [raced EXCEPT ![p] = FALSE]
                    /\ UNCHANGED <<out, runs>>
               ELSE /\ out' = [out EXCEPT ![p] = cmd_record(file, elo, date).out]
                    /\ runs' = [runs EXCEPT ![p] = @ + 1]
                    /\ UNCHANGED <<pc, mem, seen, raced>>
            /\ UNCHANGED <<file, expect, lastSave>>

\* cmd_record from get_day to the confirmation
SaveStep(p) ==
    LET data == RecordInto(mem[p], arg[p].elo, arg[p].date)
    IN  /\ pc[p] = "loaded"
        /\ file' = save_data(data)
        /\ out' = [out EXCEPT ![p] = Output("record", arg[p].date, <<arg[p].elo>>, <<>>, "none",
                                            "recorded", <<>>, RecordPos(data, arg[p].date), TRUE)]
        /\ pc' = [pc EXCEPT ![p] = "idle"]
        /\ runs' = [runs EXCEPT ![p] = @ + 1]
        /\ expect' = Recorded(expect, RecordKey(arg[p].date), arg[p].elo)
        /\ raced' = [q \in Procs |-> IF q # p /\ pc[q] = "loaded" THEN TRUE ELSE raced[q]]
        /\ lastSave' = [writer |-> p,
                        rec |-> [lastSave.rec EXCEPT ![p] =
                                   [key |-> RecordKey(arg[p].date), elo |-> arg[p].elo]]]
        /\ UNCHANGED <<mem, arg, seen>>

NextConc == \E p \in Procs : LoadStep(p) \/ SaveStep(p)

SpecConc == Init /\ [][NextConc]_vars

(***************************************************************************)
(* Properties.                                                             *)
(***************************************************************************)
\* what the one-at-a-time process printed last
Last == out[1]

\* the store in the file
Stored == load_data(file)

\* {}
EmptyObjectFile == FileOf(JObj(<<>>))

\* the eight spellings of "yes" in upper and lower case
YesSpellings == {<<y, e, s>> : y \in {121, 89}, e \in {101, 69}, s \in {115, 83}}

\* a spelling of "yes" with nothing but white space around it
YesAfterTrim(line) ==
    \E i \in 1..Len(line) :
        /\ i + 2 <= Len(line)
        /\ SubSeq(line, i, i + 2) \in YesSpellings
        /\ \A k \in 1..Len(line) : (k < i \/ k > i + 2) => IsSpace(line[k])

\* a step in which reset ran
ResetStep == out'[1].cmd = "reset" /\ out'[1] # out[1]

\* C1 as claimed: reset overwrites the file with {} exactly when the typed
\* line is a spelling of "yes" (compared without regard to case, and to
\* nothing else); on any other line it saves nothing and the file is unchanged.
C1_ResetIffExactYes ==
    [][ResetStep =>
         IF out'[1].line \in YesSpellings
         THEN out'[1].wrote /\ file' = EmptyObjectFile
         ELSE ~out'[1].wrote /\ file' = file]_vars

\* C1 as amended: reset overwrites the file with {} exactly when the typed
\* line, with leading and trailing white space removed, is a spelling of
\* "yes"; on any other line it saves nothing and the file is unchanged.
C1_ResetIffYesAfterTrim ==
    [][ResetStep =>
         IF YesAfterTrim(out'[1].line)
         THEN out'[1].wrote /\ out'[1].msg = "cleared" /\ file' = EmptyObjectFile
         ELSE ~out'[1].wrote /\ out'[1].msg = "cancelled" /\ file' = file]_vars

\* C1 witness: reset answered " Yes " has overwritten the file with {}
C1_Witness ==
    /\ Last.cmd = "reset" /\ Last.line = <<32, 89, 101, 115, 32>>
    /\ Last.msg = "cleared" /\ Last.wrote
    /\ file = EmptyObjectFile

\* C2: after any sequence of record commands the file holds, for every date,
\* exactly the sets it held first followed by the values recorded for that
\* date, in recording order and with duplicates, and nothing for any other
\* key; the file written by record loads; and the number record prints is
\* the length of the day's sets after the append, whose last element is
\* the value just recorded.
C2_RecordAppends ==
    /\ Stored.ok => SetsOf(Stored.data) = expect
    /\ (Last.cmd = "record" /\ Last.err = "none") =>
          /\ Stored.ok
          /\ RecordKey(Last.date) \in DOMAIN expect
          /\ Last.pos = Len(expect[RecordKey(Last.date)])
          /\ expect[RecordKey(Last.date)][Last.pos] = JInt(Last.num[1])

\* C2 witness: a second, equal value was recorded for a day while another
\* day holds a set
C2_Witness ==
    /\ Last.cmd = "record" /\ Last.pos = 2 /\ Stored.ok
    /\ LET k == RecordKey(Last.date)
       IN  /\ Stored.data.days[k].sets[1] = Stored.data.days[k].sets[2]
           /\ \E j \in DOMAIN Stored.data.days : j # k /\ Stored.data.days[j].sets # <<>>

\* every day of the store has a non-empty sequence of ints
NonEmptyInts(data) ==
    \A k \in DOMAIN data.days :
        /\ data.days[k].sets # <<>>
        /\ \A i \in 1..Len(data.days[k].sets) : data.days[k].sets[i].t = "int"

\* save(load(save(D))) is save(D), and load(save(D)) is D
RoundTrips(data) ==
    LET f1 == save_data(data)
        l1 == load_data(f1)
    IN  /\ l1.ok
        /\ l1.data = data
        /\ DOMAIN l1.data.days = DOMAIN data.days
        /\ \A k \in DOMAIN data.days : l1.data.days[k].sets = data.days[k].sets
        /\ save_data(l1.data) = f1

\* the store the history describes: each key's date with the sets expected
ExpectedStore == EloData([k \in DOMAIN expect |-> EloDay(fromisoformat(k).date, expect[k])])

\* C3: round trip.  For the store the history describes, and for every store
\* record is about to save, if all its days have non-empty integer sets then
\* saving it, loading the file and saving again gives back the same store
\* (same keys, same sets in the same order) and the same file.
C3_RoundTrip ==
    /\ NonEmptyInts(ExpectedStore) => RoundTrips(ExpectedStore)
    /\ Stored.ok =>
         \A elo \in Elos, date \in RecordDates :
            NonEmptyInts(RecordInto(Stored.data, elo, date))
               => RoundTrips(RecordInto(Stored.data, elo, date))

\* C3 witness: a store of two days and three sets that round-trips
C3_Witness ==
    /\ Cardinality(DOMAIN expect) = 2
    /\ SumLen(expect, DOMAIN expect) = 3
    /\ NonEmptyInts(ExpectedStore)
    /\ Stored.ok /\ Stored.data = ExpectedStore

\* the largest and smallest value of a non-empty sequence of ints
IsMaxOf(v, S) == (\E i \in 1..Len(S) : S[i] = v) /\ (\A i \in 1..Len(S) : S[i].n <= v.n)

IsMinOf(v, S) == (\E i \in 1..Len(S) : S[i] = v) /\ (\A i \in 1..Len(S) : S[i].n >= v.n)

\* C4 for one day
DerivedRight(day) ==
    LET S == day.sets
    IN  /\ S # <<>> =>
            /\ start(day) = S[1]
            /\ end(day) = S[Len(S)]
            /\ change(day) = JInt(end(day).n - start(day).n)
            /\ IsMaxOf(best(day), S)
            /\ IsMinOf(worst(day), S)
        /\ \A v \in {start(day), end(day), change(day), best(day), worst(day)} :
              (v = JNone) <=> (S = <<>>)
        /\ S = <<JInt(1500), JInt(1550), JInt(1490)>> =>
              /\ start(day) = JInt(1500) /\ end(day) = JInt(1490) /\ change(day) = JInt(-10)
              /\ best(day) = JInt(1550) /\ worst(day) = JInt(1490)

\* C4: for every stored day whose sets are ints: when the sets are not empty,
\* start is the first, end the last, change is end - start, best the maximum
\* and worst the minimum; each of the five is None exactly when the sets are
\* empty; and [1500, 1550, 1490] gives 1500, 1490, -10, 1550, 1490.  The rows
\* a command prints carry the same values.
C4_DerivedValues ==
    /\ Stored.ok =>
         \A k \in DOMAIN Stored.data.days :
            (\A i \in 1..Len(Stored.data.days[k].sets) : Stored.data.days[k].sets[i].t = "int")
               => DerivedRight(Stored.data.days[k])
    /\ \A i \in 1..Len(Last.rows) :
          \E k \in DOMAIN Stored.data.days :
             LET day == Stored.data.days[k]
             IN  /\ DerivedRight(day)
                 /\ Last.rows[i] = [date |-> isoformat(day.date), n |-> Len(day.sets),
                                    start |-> start(day), end |-> end(day),
                                    change |-> change(day), best |-> best(day),
                                    worst |-> worst(day)]

\* C4 witness: history shows the day on which 1500, 1550, 1490 were recorded
C4_Witness ==
    /\ Last.cmd = "history" /\ Last.msg = "table"
    /\ \E i \in 1..Len(Last.rows) :
          /\ Last.rows[i].n = 3
          /\ Last.rows[i].start = JInt(1500) /\ Last.rows[i].end = JInt(1490)
          /\ Last.rows[i].change = JInt(-10)
          /\ Last.rows[i].best = JInt(1550) /\ Last.rows[i].worst = JInt(1490)

\* the keys of the stored days that lie in today - (ndays - 1) .. today
InWindow(data, ndays) ==
    {k \in DOMAIN data.days :
        /\ DateGE(data.days[k].date, MinusDays(Today, ndays - 1))
        /\ DateGE(Today, data.days[k].date)}

\* C5 as claimed: summary without --date shows exactly the stored days d with
\* today - (days - 1) <= d <= today, in ascending order, and prints the
\* "no data" message exactly when no stored day lies in that window.
C5_SummaryWindow ==
    (Last.cmd = "summary" /\ Last.date = <<>> /\ Last.err = "none") =>
        LET win == InWindow(Stored.data, Last.num[1])
        IN  /\ (Last.msg = "nodata") <=> (win = {})
            /\ {Last.rows[i].date : i \in 1..Len(Last.rows)}
                  = {isoformat(Stored.data.days[k].date) : k \in win}
            /\ \A i \in 1..(Len(Last.rows) - 1) :
                  StrLess(Last.rows[i].date, Last.rows[i + 1].date)

\* the smaller of two numbers
Min(a, b) == IF a < b THEN a ELSE b

\* C6 as claimed: history --limit L on a non-empty store of n days shows the
\* min(L, n) last entries of the days in ascending order, for every L >= 0;
\* without --limit it shows all n.
C6_HistoryLimit ==
    (Last.cmd = "history" /\ Last.err = "none" /\ Stored.data.days # <<>>) =>
        LET all == sorted_days(Stored.data)
            n == Len(all)
            shown == IF Last.num = <<>> THEN n ELSE Min(Last.num[1], n)
        IN  /\ Len(Last.rows) = shown
            /\ \A i \in 1..Len(Last.rows) :
                  Last.rows[i].date = isoformat(all[n - Len(Last.rows) + i].date)

\* a document of the shape the program writes: an object whose keys are ISO
\* dates and whose values are objects with a list of ints under "sets"
WellFormedDoc(doc) ==
    /\ doc.t = "obj"
    /\ \A i \in 1..Len(doc.members) :
          /\ fromisoformat(doc.members[i].key).ok
          /\ doc.members[i].val.t = "obj"
          /\ \E j \in 1..Len(doc.members[i].val.members) :
                /\ doc.members[i].val.members[j].key = SetsKey
                /\ doc.members[i].val.members[j].val.t = "arr"
                /\ \A e \in 1..Len(doc.members[i].val.members[j].val.items) :
                      doc.members[i].val.members[j].val.items[e].t = "int"

\* C7 as claimed: when the file exists and is not well formed (not JSON, a
\* key that is no ISO date, a day without a list under "sets", an element of
\* "sets" that is no int) load fails: it returns no store, and the command
\* that read the file (summary and history leave the file as they found it)
\* ended with the error and printed nothing.
C7_LoadRejectsInvalid ==
    (Last.cmd \in {"summary", "history"} /\ file.exists /\ ~WellFormedDoc(file.doc)) =>
        /\ ~Stored.ok
        /\ Last.err # "none"
        /\ Last.rows = <<>>

\* C8 as claimed: sortedDays is strictly ascending by date string, holds
\* exactly one record for each key of the store and nothing else, and is in
\* chronological order of the records' dates (checked on the store history
\* has just listed).
C8_SortedDays ==
    (Last.cmd = "history" /\ Stored.ok) =>
        LET days == sorted_days(Stored.data)
            keys == sorted(DOMAIN Stored.data.days)
        IN  /\ Len(days) = Cardinality(DOMAIN Stored.data.days)
            /\ \A k \in DOMAIN Stored.data.days :
                  \E i \in 1..Len(days) : keys[i] = k /\ days[i] = Stored.data.days[k]
            /\ \A i \in 1..(Len(days) - 1) :
                  /\ StrLess(keys[i], keys[i + 1])
                  /\ DateLess(days[i].date, days[i + 1].date)

\* a file as C9 takes it: missing, or one that loads, in which every day has
\* at least one set and no date is the date of two keys
EveryDayHasASet(f) ==
    \/ ~f.exists
    \/ /\ load_data(f).ok
       /\ \A i \in 1..Len(f.doc.members) :
             /\ load_data(f).data.days[f.doc.members[i].key].sets # <<>>
             /\ \A j \in 1..Len(f.doc.members) :
                   i # j => fromisoformat(f.doc.members[i].key).date
                               # fromisoformat(f.doc.members[j].key).date

\* C9 as claimed: from a missing file, or a file in which every day has at
\* least one set, no command leaves a file in which a day has no set or a
\* date appears as a key more than once.
C9_NoEmptyDayPersisted == [][EveryDayHasASet(file) => EveryDayHasASet(file')]_vars

\* how many times elo stands in the sets the file holds at key
Count(f, key, elo) ==
    LET data == load_data(f).data
    IN  IF key \in DOMAIN data.days
        THEN Cardinality({i \in 1..Len(data.days[key].sets) : data.days[key].sets[i] = JInt(elo)})
        ELSE 0

\* how many times elo stands in the sets of a loaded store at key
CountIn(data, key, elo) ==
    IF key \in DOMAIN data.days
    THEN Cardinality({i \in 1..Len(data.days[key].sets) : data.days[key].sets[i] = JInt(elo)})
    ELSE 0

\* 1 when process q recorded the very key and value the other one did
Same(q, o) ==
    IF RecordKey(arg[q].date) = lastSave.rec[o].key /\ arg[q].elo = lastSave.rec[o].elo
    THEN 1 ELSE 0

\* C10: last writer wins.  When process q has just saved, the file is exactly
\* the store q loaded with q's set appended.  If the other process o saved
\* between q's load and q's save, the set o appended is absent (the file
\* holds it no more often than the store q had loaded); if q loaded after
\* o's save, with no save in between, both sets are in the file.
C10_LastWriterWins ==
    \A q \in Procs : \A o \in Procs \ {q} :
        (lastSave.writer = q /\ pc[q] = "idle") =>
            /\ file = save_data(RecordInto(mem[q], arg[q].elo, arg[q].date))
            /\ Count(file, RecordKey(arg[q].date), arg[q].elo)
                  = CountIn(mem[q], RecordKey(arg[q].date), arg[q].elo) + 1
            /\ raced[q] =>
                  Count(file, lastSave.rec[o].key, lastSave.rec[o].elo)
                     = CountIn(mem[q], lastSave.rec[o].key, lastSave.rec[o].elo) + Same(q, o)
            /\ (~raced[q] /\ seen[q] = o) =>
                  /\ CountIn(mem[q], lastSave.rec[o].key, lastSave.rec[o].elo) >= 1
                  /\ Count(file, lastSave.rec[o].key, lastSave.rec[o].elo) >= 1 + Same(q, o)

\* C10 witness: both processes loaded the missing file, both saved, and the
\* file holds one set only: the first writer's update is lost
C10_Witness ==
    /\ \A p \in Procs : pc[p] = "idle" /\ runs[p] = 1 /\ out[p].msg = "recorded"
    /\ \E q \in Procs : lastSave.writer = q /\ raced[q]
    /\ SumLen(expect, DOMAIN expect) = 2
    /\ TotalSets(file) = 1

====
